---- MODULE Spec2Model ----
(***************************************************************************)
(* Profile-suggestions pipeline of the learning-path-creator template.     *)
(*                                                                         *)
(* The route handler POST /api/profile/suggestions is given in the source  *)
(* as a step list: src/app/api/health/route.ts (hints at lines 153-229 and *)
(* the IMPLEMENTATION STEPS block at 333-392) and, statement for statement,*)
(* src/docs/ai-integration.md (steps 1-6, rate limiting, caching).  In     *)
(* route.ts the steps are comments and the handler answers 501 until they  *)
(* are filled in; the model follows the statements as the guide writes     *)
(* them out, in the guide's order: validate, authenticate, rate limit,     *)
(* cache, completion, parse, insert, respond.  Every await of the handler  *)
(* is an interleaving point, so one invocation is a sequence of actions.   *)
(*                                                                         *)
(* Text is a sequence of one-symbol strings.  The symbols:                 *)
(*   "{" "}" "]" ","   JSON punctuation                                    *)
(*   "S"               the member opener  "suggestions":[                  *)
(*   "t" "u"           the three members of a well-formed suggestion       *)
(*   "w"               the three members, title being one blank            *)
(*   "e"               the three members, title being the empty string     *)
(*   "f"               the three members of the fallback suggestion        *)
(*   "F"               a code fence ```                                    *)
(*   "J"               the word json                                       *)
(*   "x"               a word of prose                                     *)
(*   " " "n"           a blank, a line feed                                *)
(***************************************************************************)
EXTENDS Integers, Sequences, FiniteSets, TLC

(***************************************************************************)
(* Bounds of the model                                                     *)
(***************************************************************************)
MaxCalls == 2

MaxTime == 48

TickSteps == {12}

Procs == {"p1", "p2"}

Owners == {"alice", "bob"}

NoUser == "anonymous"

(***************************************************************************)
(* Text helpers                                                            *)
(***************************************************************************)
IsSpace(c) == c \in {" ", "n"}

RECURSIVE TrimStart(_)
TrimStart(s) ==
  IF s # <<>> /\ IsSpace(Head(s)) THEN TrimStart(Tail(s)) ELSE s

RECURSIVE TrimEnd(_)
TrimEnd(s) ==
  IF s # <<>> /\ IsSpace(s[Len(s)]) THEN TrimEnd(SubSeq(s, 1, Len(s) - 1)) ELSE s

Trim(s) == TrimEnd(TrimStart(s))

\* cleaned.replace(/```json\n?/g, '')
RECURSIVE StripJsonFences(_)
StripJsonFences(s) ==
  IF s = <<>> THEN <<>>
  ELSE IF Len(s) >= 2 /\ s[1] = "F" /\ s[2] = "J"
       THEN IF Len(s) >= 3 /\ s[3] = "n"
            THEN StripJsonFences(SubSeq(s, 4, Len(s)))
            ELSE StripJsonFences(SubSeq(s, 3, Len(s)))
       ELSE <<Head(s)>> \o StripJsonFences(Tail(s))

\* the replace without the g flag: the first fence only
StripFencesOnce(s) ==
  IF \E i \in 1..Len(s) : s[i] = "F"
  THEN LET i == CHOOSE k \in 1..Len(s) :
                  s[k] = "F" /\ \A j \in 1..(k - 1) : s[j] # "F"
           after == IF i < Len(s) /\ s[i + 1] = "n" THEN i + 2 ELSE i + 1
       IN SubSeq(s, 1, i - 1) \o SubSeq(s, after, Len(s))
  ELSE s

\* cleaned.replace(/```\n?/g, '')
RECURSIVE StripFences(_)
StripFences(s) ==
  IF s = <<>> THEN <<>>
  ELSE IF s[1] = "F"
       THEN IF Len(s) >= 2 /\ s[2] = "n"
            THEN StripFences(SubSeq(s, 3, Len(s)))
            ELSE StripFences(Tail(s))
       ELSE <<Head(s)>> \o StripFences(Tail(s))

Positions(s, c) == {i \in 1..Len(s) : s[i] = c}

Count(s, x) == Cardinality({i \in 1..Len(s) : s[i] = x})

Min(S) == CHOOSE m \in S : \A k \in S : m <= k

Max(S) == CHOOSE m \in S : \A k \in S : m >= k

\* the match made lazy, /\{[\s\S]*?\}/: from the first "{" to the first "}"
\* that follows it
JsonMatchLazy(s) ==
  LET opens == Positions(s, "{")
      first == Min(opens)
      closes == {i \in Positions(s, "}") : i > first}
  IN IF opens = {} \/ closes = {} THEN <<>>
     ELSE SubSeq(s, first, Min(closes))

\* cleaned.match(/\{[\s\S]*\}/): greedy, from the first "{" to the last "}"
\* that follows it; <<>> stands for null (a match is never empty).
JsonMatch(s) ==
  LET opens == Positions(s, "{")
      first == Min(opens)
      closes == {i \in Positions(s, "}") : i > first}
  IN IF opens = {} \/ closes = {} THEN <<>>
     ELSE SubSeq(s, first, Max(closes))

RECURSIVE DropSpace(_)
DropSpace(s) ==
  IF s = <<>> THEN <<>>
  ELSE IF IsSpace(Head(s)) THEN DropSpace(Tail(s))
       ELSE <<Head(s)>> \o DropSpace(Tail(s))

(***************************************************************************)
(* Suggestions                                                             *)
(***************************************************************************)
\* a fallback literal whose title is empty
FallbackNoTitle ==
  << [title |-> "",
      reason |-> "Building a strong foundation is crucial for long-term growth as a developer.",
      action |-> "Complete one online tutorial on core programming concepts this week."] >>

\* the literal returned from the catch block of parseSuggestions, as the guide
\* spells it (route.ts:323-329 has the same item without the closing periods)
FallbackSuggestions ==
  << [title |-> "Start with Fundamentals",
      reason |-> "Building a strong foundation is crucial for long-term growth as a developer.",
      action |-> "Complete one online tutorial on core programming concepts this week."] >>

\* the members a field symbol stands for
Fields(f) ==
  CASE f = "t" -> [title |-> "A", reason |-> "B", action |-> "C"]
    [] f = "u" -> [title |-> "D", reason |-> "E", action |-> "F"]
    [] f = "w" -> [title |-> " ", reason |-> "B", action |-> "C"]
    [] f = "f" -> FallbackSuggestions[1]
    [] OTHER   -> [title |-> "", reason |-> "B", action |-> "C"]

FieldSymbols == {"t", "u", "w", "e", "f"}

\* suggestionSchema: z.string().min(1) on title, reason, action
suggestionSchema(item) ==
  /\ item.title # ""
  /\ item.reason # ""
  /\ item.action # ""

\* JSON.parse on the matched text: the text is an object whose one member is
\* "suggestions", a list of objects.  parsed.ok is FALSE where JSON.parse
\* throws or the value has another shape.
JsonParse(text) ==
  LET s == DropSpace(text)
      n == Len(s)
      m == IF n >= 4 THEN SubSeq(s, 3, n - 2) ELSE <<>>
      k == (Len(m) + 1) \div 4
      shaped ==
        /\ n >= 4
        /\ s[1] = "{" /\ s[2] = "S" /\ s[n - 1] = "]" /\ s[n] = "}"
        /\ \/ Len(m) = 0
           \/ /\ Len(m) % 4 = 3
              /\ \A i \in 1..Len(m) :
                   CASE i % 4 = 1 -> m[i] = "{"
                     [] i % 4 = 2 -> m[i] \in FieldSymbols
                     [] i % 4 = 3 -> m[i] = "}"
                     [] OTHER     -> m[i] = ","
  IN IF shaped
     THEN [ok |-> TRUE, suggestions |-> [i \in 1..k |-> Fields(m[4 * i - 2])]]
     ELSE [ok |-> FALSE, suggestions |-> <<>>]

MinSuggestions == 1

MaxSuggestions == 10

\* aiResponseSchema without .min(1).max(10)
aiResponseSchemaAnyLength(parsed) ==
  /\ parsed.ok
  /\ \A i \in 1..Len(parsed.suggestions) : suggestionSchema(parsed.suggestions[i])

\* aiResponseSchema: z.array(suggestionSchema).min(1).max(10)
aiResponseSchema(parsed) ==
  /\ parsed.ok
  /\ Len(parsed.suggestions) >= MinSuggestions
  /\ Len(parsed.suggestions) <= MaxSuggestions
  /\ \A i \in 1..Len(parsed.suggestions) : suggestionSchema(parsed.suggestions[i])

Cleaned(rawResponse) == StripFences(StripJsonFences(Trim(rawResponse)))

\* TRUE where the try block of parseSuggestions runs to its return
ParsesCleanly(rawResponse) ==
  LET jsonMatch == JsonMatch(Cleaned(rawResponse))
  IN /\ jsonMatch # <<>>
     /\ aiResponseSchema(JsonParse(jsonMatch))

\* parseSuggestions keeping the well-formed elements of a list it should reject
parseSuggestionsPartial(rawResponse) ==
  LET parsed == JsonParse(JsonMatch(Cleaned(rawResponse)))
      good == SelectSeq(parsed.suggestions, suggestionSchema)
  IN IF parsed.ok /\ good # <<>> THEN good ELSE FallbackSuggestions

parseSuggestions(rawResponse) ==
  IF ParsesCleanly(rawResponse)
  THEN JsonParse(JsonMatch(Cleaned(rawResponse))).suggestions
  ELSE FallbackSuggestions

\* what a call of parseSuggestions leaves in the call log: the call, and the
\* console.error of its catch block where that ran
ParseLog(rawResponse) ==
  IF ParsesCleanly(rawResponse) THEN <<"parse">> ELSE <<"parse", "parseError">>

(***************************************************************************)
(* Request bodies and input validation                                     *)
(***************************************************************************)
Rep(c, n) == [i \in 1..n |-> c]

ExperienceLevels == {"beginner", "intermediate", "advanced"}

MinBackground == 10

MaxBackground == 2000

MaxGoals == 1000

HasGoals(data) == "currentGoals" \in DOMAIN data

\* aiPromptSchema with both limits of userBackground exclusive
aiPromptSchemaExclusive(data) ==
  /\ Len(data.userBackground) > MinBackground
  /\ Len(data.userBackground) < MaxBackground
  /\ HasGoals(data) => Len(data.currentGoals) <= MaxGoals
  /\ data.experienceLevel \in ExperienceLevels

\* aiPromptSchema: the length checks run on the text as received, the trim
\* after them
aiPromptSchema(data) ==
  /\ Len(data.userBackground) >= MinBackground
  /\ Len(data.userBackground) <= MaxBackground
  /\ HasGoals(data) => Len(data.currentGoals) <= MaxGoals
  /\ data.experienceLevel \in ExperienceLevels

\* result.data of a successful safeParse
Parsed(data) ==
  IF HasGoals(data)
  THEN [userBackground |-> Trim(data.userBackground),
        currentGoals |-> Trim(data.currentGoals),
        experienceLevel |-> data.experienceLevel]
  ELSE [userBackground |-> Trim(data.userBackground),
        experienceLevel |-> data.experienceLevel]

\* validate with the result of safeParse ignored: nothing is thrown
validateLenient(data) == [ok |-> TRUE, data |-> Parsed(data)]

\* validate(schema, data): ok = FALSE where it throws
validate(data) ==
  IF aiPromptSchema(data)
  THEN [ok |-> TRUE, data |-> Parsed(data)]
  ELSE [ok |-> FALSE, data |-> data]

\* the bodies a client sends
Bodies ==
  { [userBackground |-> Rep("a", 9), experienceLevel |-> "beginner"],
    [userBackground |-> Rep("a", 10), experienceLevel |-> "beginner"],
    [userBackground |-> Rep("a", 10), experienceLevel |-> "expert"],
    [userBackground |-> Rep("b", 10) \o <<" ">>, currentGoals |-> <<"g">>,
     experienceLevel |-> "advanced"] }

\* the texts the completion service answers with
TwoItems == <<"{", "S", "{", "t", "}", ",", "{", "u", "}", "]", "}">>

Fenced == <<"F", "J", "n">> \o TwoItems \o <<"n", "F">>

NoBraces == <<"x", " ", "x">>

EmptyList == <<"x", " ", "{", "S", "]", "}">>

Unclosed == <<"{", "S", "{", "t", "}", "}">>

InvalidElement == <<"{", "S", "{", "t", "}", ",", "{", "e", "}", "]", "}">>

RECURSIVE ItemList(_)
ItemList(n) ==
  IF n = 1 THEN <<"{", "t", "}">> ELSE ItemList(n - 1) \o <<",", "{", "t", "}">>

TooMany == <<"{", "S">> \o ItemList(MaxSuggestions + 1) \o <<"]", "}">>

NullContent == <<>>

Completions ==
  {TwoItems, Fenced, NoBraces, EmptyList, Unclosed, InvalidElement, TooMany,
   NullContent}

(***************************************************************************)
(* The table profile_suggestions and the requests in flight                *)
(***************************************************************************)
VARIABLES
  now,                  \* the clock, in hours
  profile_suggestions,  \* the rows of the table
  nextId,               \* the next value of the id column
  calls,                \* requests received so far
  pc,                   \* where each request stands in POST
  caller,               \* supabase.auth.getUser() of the request
  body,                 \* await req.json()
  validated,            \* validate(aiPromptSchema, body)
  aiResponse,           \* completion.choices[0].message.content
  jsonMatch,            \* cleaned.match(...) inside parseSuggestions, <<>> for null
  suggestions,          \* parseSuggestions(aiResponse || '')
  thrown,               \* the error that reached the catch block
  response,             \* what POST returned
  log,                  \* the calls the request made so far, in order
  query,                \* the queries.profileSuggestions call each client is in
  current,              \* the row markComplete read with getById
  result,               \* what the call returned or threw
  button                \* a rendered Button: its props, the clicks, the onClick calls

vars == <<now, profile_suggestions, nextId, calls, pc, caller, body, validated,
          aiResponse, jsonMatch, suggestions, thrown, response, log,
          query, current, result, button>>

\* 24 * 60 * 60 * 1000 ms, in hours
Window == 24

Null == -1

NoBody == [userBackground |-> <<>>, experienceLevel |-> "none"]

NoResponse == [status |-> 0]

NotThrown == "none"

\* the catch block of POST
CatchResponse == [status |-> 500, error |-> "Failed to generate suggestions"]

Unauthorized == [status |-> 401, error |-> "Unauthorized"]

TooManyRequests == [status |-> 429, error |-> "You can only get suggestions once per day"]

NoQuery == [fn |-> "none"]

NoRow == [id |-> 0]

NoResult == [status |-> "none"]

\* a Button before any click
NoButton == [disabled |-> FALSE, isLoading |-> FALSE, clicks |-> 0, onClick |-> 0]

Init ==
  /\ now = 0
  /\ profile_suggestions = {}
  /\ nextId = 1
  /\ calls = 0
  /\ pc = [p \in Procs |-> "idle"]
  /\ caller = [p \in Procs |-> NoUser]
  /\ body = [p \in Procs |-> NoBody]
  /\ validated = [p \in Procs |-> NoBody]
  /\ aiResponse = [p \in Procs |-> <<>>]
  /\ jsonMatch = [p \in Procs |-> <<>>]
  /\ suggestions = [p \in Procs |-> <<>>]
  /\ thrown = [p \in Procs |-> NotThrown]
  /\ response = [p \in Procs |-> NoResponse]
  /\ log = [p \in Procs |-> <<>>]
  /\ query = [p \in Procs |-> NoQuery]
  /\ current = [p \in Procs |-> NoRow]
  /\ result = [p \in Procs |-> NoResult]
  /\ button = NoButton

\* a request arrives: const body = await req.json(), then
\* const validated = validate(aiPromptSchema, body), which throws into the
\* catch block where the body does not satisfy the schema
Receive(p, who, b) ==
  /\ pc[p] = "idle"
  /\ calls < MaxCalls
  /\ calls' = calls + 1
  /\ caller' = [caller EXCEPT ![p] = who]
  /\ body' = [body EXCEPT ![p] = b]
  /\ IF validate(b).ok
     THEN /\ validated' = [validated EXCEPT ![p] = validate(b).data]
          /\ pc' = [pc EXCEPT ![p] = "auth"]
          /\ UNCHANGED <<thrown, response>>
     ELSE /\ thrown' = [thrown EXCEPT ![p] = "ValidationError"]
          /\ response' = [response EXCEPT ![p] = CatchResponse]
          /\ pc' = [pc EXCEPT ![p] = "done"]
          /\ UNCHANGED validated
  /\ log' = [log EXCEPT ![p] = <<"validate">>]
  /\ UNCHANGED <<now, profile_suggestions, nextId, aiResponse, jsonMatch, suggestions>>
  /\ UNCHANGED <<query, current, result, button>>

Request(p) == \E who \in Owners \cup {NoUser}, b \in Bodies : Receive(p, who, b)

\* Authenticate handing a signed-in caller straight to the cache lookup
AuthenticateNoRateCheck(p) ==
  /\ pc[p] = "auth"
  /\ IF caller[p] = NoUser
     THEN /\ response' = [response EXCEPT ![p] = Unauthorized]
          /\ pc' = [pc EXCEPT ![p] = "done"]
     ELSE /\ pc' = [pc EXCEPT ![p] = "cache"]
          /\ UNCHANGED response
  /\ log' = [log EXCEPT ![p] = Append(@, "auth")]
  /\ UNCHANGED <<now, profile_suggestions, nextId, calls, caller, body,
                 validated, aiResponse, jsonMatch, suggestions, thrown>>
  /\ UNCHANGED <<query, current, result, button>>

\* const { data: { user }, error } = await supabase.auth.getUser()
Authenticate(p) ==
  /\ pc[p] = "auth"
  /\ IF caller[p] = NoUser
     THEN /\ response' = [response EXCEPT ![p] = Unauthorized]
          /\ pc' = [pc EXCEPT ![p] = "done"]
     ELSE /\ pc' = [pc EXCEPT ![p] = "rate"]
          /\ UNCHANGED response
  /\ log' = [log EXCEPT ![p] = Append(@, "auth")]
  /\ UNCHANGED <<now, profile_suggestions, nextId, calls, caller, body,
                 validated, aiResponse, jsonMatch, suggestions, thrown>>
  /\ UNCHANGED <<query, current, result, button>>

\* the rate query with the 24 hours not subtracted from Date.now()
RecentSuggestionsNoWindow(uid, t) ==
  {row \in profile_suggestions : row.user_id = uid /\ row.created_at >= t}

\* .eq('user_id', user.id).gte('created_at', Date.now() - 24h)
RecentSuggestions(uid, t) ==
  {row \in profile_suggestions : row.user_id = uid /\ row.created_at >= t - Window}

RateLimit(p) ==
  /\ pc[p] = "rate"
  /\ IF RecentSuggestions(caller[p], now) # {}
     THEN /\ response' = [response EXCEPT ![p] = TooManyRequests]
          /\ pc' = [pc EXCEPT ![p] = "done"]
     ELSE /\ pc' = [pc EXCEPT ![p] = "cache"]
          /\ UNCHANGED response
  /\ log' = [log EXCEPT ![p] = Append(@, "rate")]
  /\ UNCHANGED <<now, profile_suggestions, nextId, calls, caller, body,
                 validated, aiResponse, jsonMatch, suggestions, thrown>>
  /\ UNCHANGED <<query, current, result, button>>

(***************************************************************************)
(* Caching similar requests                                                *)
(***************************************************************************)
Lower(c) ==
  CASE c = "A" -> "a"
    [] c = "B" -> "b"
    [] OTHER   -> c

LowerCase(s) == [i \in 1..Len(s) |-> Lower(s[i])]

RECURSIVE CollapseSpace(_)
CollapseSpace(s) ==
  IF s = <<>> THEN <<>>
  ELSE IF IsSpace(Head(s))
       THEN IF Len(s) >= 2 /\ IsSpace(s[2])
            THEN CollapseSpace(Tail(s))
            ELSE <<" ">> \o CollapseSpace(Tail(s))
       ELSE <<Head(s)>> \o CollapseSpace(Tail(s))

PrefixLen == 30

Take(s, n) == SubSeq(s, 1, IF Len(s) < n THEN Len(s) ELSE n)

\* the normalized prefix of a background: lowercased, whitespace collapsed,
\* the first PrefixLen characters
firstFewWords(background) == Take(CollapseSpace(LowerCase(background)), PrefixLen)

Contains(text, part) ==
  \E i \in 0..(Len(text) - Len(part)) : SubSeq(text, i + 1, i + Len(part)) = part

\* column ILIKE %part%
ILike(text, part) == Contains(LowerCase(text), LowerCase(part))

\* the cache query matching the whole background, not its leading words
CachedSuggestionsExact(data) ==
  {row \in profile_suggestions :
     /\ row.input_data.experienceLevel = data.experienceLevel
     /\ row.input_data.userBackground = data.userBackground}

\* .eq('input_data->experienceLevel', ...).ilike('input_data->userBackground', ...)
CachedSuggestions(data) ==
  {row \in profile_suggestions :
     /\ row.input_data.experienceLevel = data.experienceLevel
     /\ ILike(row.input_data.userBackground, firstFewWords(data.userBackground))}

\* CacheLookup storing the reused suggestions as a new row of the caller
CacheLookupStoring(p) ==
  /\ pc[p] = "cache"
  /\ IF CachedSuggestions(validated[p]) # {}
     THEN /\ \E row \in CachedSuggestions(validated[p]) :
               /\ response' = [response EXCEPT ![p] =
                    [status |-> 200, success |-> TRUE,
                     suggestions |-> row.suggestions, cached |-> TRUE]]
               /\ profile_suggestions' = profile_suggestions \cup
                    {[id |-> nextId, user_id |-> caller[p],
                      suggestions |-> row.suggestions, input_data |-> validated[p],
                      created_at |-> now, viewed_at |-> Null,
                      completed_suggestions |-> <<>>, rating |-> Null]}
          /\ nextId' = nextId + 1
          /\ pc' = [pc EXCEPT ![p] = "done"]
     ELSE /\ pc' = [pc EXCEPT ![p] = "openai"]
          /\ UNCHANGED <<response, profile_suggestions, nextId>>
  /\ log' = [log EXCEPT ![p] = Append(@, "cache")]
  /\ UNCHANGED <<now, calls, caller, body, validated, aiResponse, jsonMatch, suggestions, thrown>>
  /\ UNCHANGED <<query, current, result, button>>

CacheLookup(p) ==
  /\ pc[p] = "cache"
  /\ IF CachedSuggestions(validated[p]) # {}
     THEN /\ \E row \in CachedSuggestions(validated[p]) :
               response' = [response EXCEPT ![p] =
                 [status |-> 200, success |-> TRUE,
                  suggestions |-> row.suggestions, cached |-> TRUE]]
          /\ pc' = [pc EXCEPT ![p] = "done"]
     ELSE /\ pc' = [pc EXCEPT ![p] = "openai"]
          /\ UNCHANGED response
  /\ log' = [log EXCEPT ![p] = Append(@, "cache")]
  /\ UNCHANGED <<now, profile_suggestions, nextId, calls, caller, body,
                 validated, aiResponse, jsonMatch, suggestions, thrown>>
  /\ UNCHANGED <<query, current, result, button>>

(***************************************************************************)
(* The completion, its parsing and the insert                              *)
(***************************************************************************)
\* await openai.chat.completions.create(...): an error thrown by
\* getOpenAIClient (no API key) or by the call (network, quota, timeout)
\* reaches the catch block; an answer goes through
\* const suggestions = parseSuggestions(aiResponse || '')
\* CallOpenAI trying again after an error of the completion service
CallOpenAIRetry(p) ==
  /\ pc[p] = "openai"
  /\ \/ \E raw \in Completions :
          /\ aiResponse' = [aiResponse EXCEPT ![p] = raw]
          /\ jsonMatch' = [jsonMatch EXCEPT ![p] = JsonMatch(Cleaned(raw))]
          /\ suggestions' = [suggestions EXCEPT ![p] = parseSuggestions(raw)]
          /\ pc' = [pc EXCEPT ![p] = "store"]
          /\ log' = [log EXCEPT ![p] = @ \o <<"openai">> \o ParseLog(raw)]
     \/ /\ Count(log[p], "openai") < 2
        /\ log' = [log EXCEPT ![p] = Append(@, "openai")]
        /\ UNCHANGED <<aiResponse, jsonMatch, suggestions, pc>>
  /\ UNCHANGED <<now, profile_suggestions, nextId, calls, caller, body,
                 validated, thrown, response>>
  /\ UNCHANGED <<query, current, result, button>>

CallOpenAI(p) ==
  /\ pc[p] = "openai"
  /\ \/ \E raw \in Completions :
          /\ aiResponse' = [aiResponse EXCEPT ![p] = raw]
          /\ jsonMatch' = [jsonMatch EXCEPT ![p] = JsonMatch(Cleaned(raw))]
          /\ suggestions' = [suggestions EXCEPT ![p] = parseSuggestions(raw)]
          /\ pc' = [pc EXCEPT ![p] = "store"]
          /\ log' = [log EXCEPT ![p] = @ \o <<"openai">> \o ParseLog(raw)]
          /\ UNCHANGED <<thrown, response>>
     \/ \E e \in {"MissingApiKey", "OpenAIError"} :
          /\ thrown' = [thrown EXCEPT ![p] = e]
          /\ response' = [response EXCEPT ![p] = CatchResponse]
          /\ pc' = [pc EXCEPT ![p] = "done"]
          /\ log' = [log EXCEPT ![p] = Append(@, "openai")]
          /\ UNCHANGED <<aiResponse, jsonMatch, suggestions>>
  /\ UNCHANGED <<now, profile_suggestions, nextId, calls, caller, body, validated>>
  /\ UNCHANGED <<query, current, result, button>>

\* the row an insert of { user_id, suggestions, input_data } creates
NewRow(id, uid, items, data, t) ==
  [id |-> id, user_id |-> uid, suggestions |-> items, input_data |-> data,
   created_at |-> t, viewed_at |-> Null, completed_suggestions |-> <<>>,
   rating |-> Null]

\* the response of step 6
SuccessResponse(items, data, t) ==
  [status |-> 200, success |-> TRUE, suggestions |-> items,
   metadata |-> [experienceLevel |-> data.experienceLevel, timestamp |-> t]]

\* Store issuing the insert twice
StoreTwice(p) ==
  /\ pc[p] = "store"
  /\ profile_suggestions' = profile_suggestions \cup
       {NewRow(nextId, caller[p], suggestions[p], validated[p], now),
        NewRow(nextId + 1, caller[p], suggestions[p], validated[p], now)}
  /\ nextId' = nextId + 2
  /\ log' = [log EXCEPT ![p] = @ \o <<"insert", "insert">>]
  /\ response' = [response EXCEPT ![p] =
       SuccessResponse(suggestions[p], validated[p], now)]
  /\ pc' = [pc EXCEPT ![p] = "done"]
  /\ UNCHANGED <<now, calls, caller, body, validated, aiResponse, jsonMatch, suggestions, thrown>>
  /\ UNCHANGED <<query, current, result, button>>

\* await supabase.from('profile_suggestions').insert(...); on dbError the
\* handler logs and continues; then the response is returned
Store(p) ==
  /\ pc[p] = "store"
  /\ \/ /\ profile_suggestions' = profile_suggestions \cup
             {NewRow(nextId, caller[p], suggestions[p], validated[p], now)}
        /\ nextId' = nextId + 1
        /\ log' = [log EXCEPT ![p] = Append(@, "insert")]
     \/ /\ UNCHANGED <<profile_suggestions, nextId>>
        /\ log' = [log EXCEPT ![p] = Append(@, "dbError")]
  /\ response' = [response EXCEPT ![p] =
       SuccessResponse(suggestions[p], validated[p], now)]
  /\ pc' = [pc EXCEPT ![p] = "done"]
  /\ UNCHANGED <<now, calls, caller, body, validated, aiResponse, jsonMatch, suggestions, thrown>>
  /\ UNCHANGED <<query, current, result, button>>

\* the response is on its way and the handler's frame is gone
Return(p) ==
  /\ pc[p] = "done"
  /\ pc' = [pc EXCEPT ![p] = "idle"]
  /\ caller' = [caller EXCEPT ![p] = NoUser]
  /\ body' = [body EXCEPT ![p] = NoBody]
  /\ validated' = [validated EXCEPT ![p] = NoBody]
  /\ aiResponse' = [aiResponse EXCEPT ![p] = <<>>]
  /\ jsonMatch' = [jsonMatch EXCEPT ![p] = <<>>]
  /\ suggestions' = [suggestions EXCEPT ![p] = <<>>]
  /\ thrown' = [thrown EXCEPT ![p] = NotThrown]
  /\ response' = [response EXCEPT ![p] = NoResponse]
  /\ log' = [log EXCEPT ![p] = <<>>]
  /\ UNCHANGED <<now, profile_suggestions, nextId, calls>>
  /\ UNCHANGED <<query, current, result, button>>

\* time passes
Tick ==
  /\ \E d \in TickSteps :
       /\ now + d <= MaxTime
       /\ now' = now + d
  /\ UNCHANGED <<profile_suggestions, nextId, calls, pc, caller, body, validated,
                 aiResponse, jsonMatch, suggestions, thrown, response, log>>
  /\ UNCHANGED <<query, current, result, button>>

Step(p) ==
  \/ Authenticate(p)
  \/ RateLimit(p)
  \/ CacheLookup(p)
  \/ CallOpenAI(p)
  \/ Store(p)
  \/ Return(p)

\* requests overlap freely
Next ==
  \/ \E p \in Procs : Request(p) \/ Step(p)
  \/ Tick

Spec == Init /\ [][Next]_vars

\* one request at a time
SeqRequest(p) ==
  /\ \A q \in Procs : pc[q] = "idle"
  /\ Request(p)

SeqNext ==
  \/ \E p \in Procs : SeqRequest(p) \/ Step(p)
  \/ Tick

SeqSpec == Init /\ [][SeqNext]_vars

\* What the runtime guarantees of a request in flight: a synchronous step and
\* an await on the session or the table resume once they can.  Nothing makes
\* the completion service answer, and create() is called with no timeout and
\* no abort signal, so the await in CallOpenAI gets no fairness.
Fairness ==
  \A p \in Procs :
     /\ WF_vars(Authenticate(p))
     /\ WF_vars(RateLimit(p))
     /\ WF_vars(CacheLookup(p))
     /\ WF_vars(Store(p))
     /\ WF_vars(Return(p))

FairSpec == Init /\ [][SeqNext]_vars /\ Fairness

(***************************************************************************)
(* Requests with similar backgrounds, one at a time                        *)
(***************************************************************************)
LeadingWords == Rep("a", PrefixLen)

SimilarBodies ==
  { [userBackground |-> LeadingWords \o <<"x">>, experienceLevel |-> "beginner"],
    [userBackground |-> LeadingWords \o <<"y">>, experienceLevel |-> "beginner"],
    [userBackground |-> LeadingWords \o <<"y">>, experienceLevel |-> "advanced"],
    [userBackground |-> <<"B">> \o LeadingWords, experienceLevel |-> "beginner"],
    [userBackground |-> Rep("a", PrefixLen - 2) \o <<" ", " ", "y">>,
     experienceLevel |-> "beginner"] }

\* a signed-in caller sends one of them
SimilarRequest(p) ==
  /\ \A q \in Procs : pc[q] = "idle"
  /\ \E who \in Owners, b \in SimilarBodies : Receive(p, who, b)

\* one request after the other, all served by the same instance
CacheNext ==
  \/ SimilarRequest("p1")
  \/ Step("p1")
  \/ Tick

CacheSpec == Init /\ [][CacheNext]_vars

(***************************************************************************)
(* validate(aiPromptSchema, body) on its own: the body is drawn at the     *)
(* start and the first statement of POST is applied to it                  *)
(***************************************************************************)
BackgroundLengths == {0, 9, 10, 11, 1999, 2000, 2001}

GoalLengths == {0, 1, 1000, 1001}

Levels == ExperienceLevels \cup {"expert", ""}

\* backgrounds with blanks at their ends, in range before trimming
PaddedBackgrounds ==
  { Rep(" ", MinBackground),
    Rep("a", MinBackground - 1) \o <<" ">>,
    <<" ">> \o Rep("a", MinBackground),
    <<" ">> \o Rep("a", MaxBackground - 1) }

ValidationInputs ==
  { [userBackground |-> Rep("a", n), experienceLevel |-> l] :
      n \in BackgroundLengths, l \in Levels }
  \cup
  { [userBackground |-> b, experienceLevel |-> l] :
      b \in PaddedBackgrounds, l \in Levels }
  \cup
  { [userBackground |-> Rep("a", n), currentGoals |-> Rep("g", m),
     experienceLevel |-> l] :
      n \in BackgroundLengths, m \in GoalLengths, l \in Levels }

ValidationInit ==
  /\ now = 0
  /\ profile_suggestions = {}
  /\ nextId = 1
  /\ calls = 0
  /\ pc = [p \in Procs |-> "idle"]
  /\ caller = [p \in Procs |-> NoUser]
  /\ \E b \in ValidationInputs :
       body = [p \in Procs |-> IF p = "p1" THEN b ELSE NoBody]
  /\ validated = [p \in Procs |-> NoBody]
  /\ aiResponse = [p \in Procs |-> <<>>]
  /\ jsonMatch = [p \in Procs |-> <<>>]
  /\ suggestions = [p \in Procs |-> <<>>]
  /\ thrown = [p \in Procs |-> NotThrown]
  /\ response = [p \in Procs |-> NoResponse]
  /\ log = [p \in Procs |-> <<>>]
  /\ query = [p \in Procs |-> NoQuery]
  /\ current = [p \in Procs |-> NoRow]
  /\ result = [p \in Procs |-> NoResult]
  /\ button = NoButton

\* const validated = validate(aiPromptSchema, body)
ValidateBody(p) ==
  /\ pc[p] = "idle"
  /\ body[p] # NoBody
  /\ IF validate(body[p]).ok
     THEN /\ validated' = [validated EXCEPT ![p] = validate(body[p]).data]
          /\ pc' = [pc EXCEPT ![p] = "auth"]
          /\ UNCHANGED <<thrown, response>>
     ELSE /\ thrown' = [thrown EXCEPT ![p] = "ValidationError"]
          /\ response' = [response EXCEPT ![p] = CatchResponse]
          /\ pc' = [pc EXCEPT ![p] = "done"]
          /\ UNCHANGED validated
  /\ log' = [log EXCEPT ![p] = <<"validate">>]
  /\ UNCHANGED <<now, profile_suggestions, nextId, calls, caller, body,
                 aiResponse, jsonMatch, suggestions>>
  /\ UNCHANGED <<query, current, result, button>>

ValidationNext == \E p \in Procs : ValidateBody(p)

ValidationSpec == ValidationInit /\ [][ValidationNext]_vars

(***************************************************************************)
(* parseSuggestions on its own: the completion text is drawn at the start, *)
(* parseSuggestions is applied to it, and then once more to its own match  *)
(* or to its own result written out as JSON                                *)
(***************************************************************************)
MaxText == 4

TextSymbols == {"{", "}", "F", "J", "n", "x"}

ShortTexts == UNION {[1..n -> TextSymbols] : n \in 0..MaxText}

\* lists of suggestions around the limits of the schema
CandidateLists ==
  {Rep("t", n) : n \in 0..(MaxSuggestions + 1)}
  \cup {<<"t", "u">>}
  \cup UNION {{[Rep("t", n) EXCEPT ![k] = f] : k \in {1, n}, f \in {"e", "w"}} :
                n \in {1, 2, MaxSuggestions, MaxSuggestions + 1}}

RECURSIVE Members(_)
Members(fs) ==
  IF fs = <<>> THEN <<>>
  ELSE IF Len(fs) = 1 THEN <<"{", fs[1], "}">>
       ELSE <<"{", fs[1], "}", ",">> \o Members(Tail(fs))

\* the JSON text of { suggestions: [...] }, the elements given by their symbols
Render(fs) == <<"{", "S">> \o Members(fs) \o <<"]", "}">>

SymbolOf(item) == CHOOSE f \in FieldSymbols : Fields(f) = item

\* JSON.stringify({ suggestions })
Stringify(items) == Render([i \in 1..Len(items) |-> SymbolOf(items[i])])

\* a fence with another language tag
FencedOther == <<"F", "x", "n">> \o TwoItems \o <<"n", "F">>

ParseInputs ==
  Completions \cup ShortTexts \cup {Render(fs) : fs \in CandidateLists}
    \cup {FencedOther}

ParseInit ==
  /\ now = 0
  /\ profile_suggestions = {}
  /\ nextId = 1
  /\ calls = 0
  /\ pc = [p \in Procs |-> "idle"]
  /\ caller = [p \in Procs |-> NoUser]
  /\ body = [p \in Procs |-> NoBody]
  /\ validated = [p \in Procs |-> NoBody]
  /\ \E raw \in ParseInputs :
       aiResponse = [p \in Procs |-> IF p = "p1" THEN raw ELSE <<>>]
  /\ jsonMatch = [p \in Procs |-> <<>>]
  /\ suggestions = [p \in Procs |-> <<>>]
  /\ thrown = [p \in Procs |-> NotThrown]
  /\ response = [p \in Procs |-> NoResponse]
  /\ log = [p \in Procs |-> IF p = "p1" THEN <<"openai">> ELSE <<>>]
  /\ query = [p \in Procs |-> NoQuery]
  /\ current = [p \in Procs |-> NoRow]
  /\ result = [p \in Procs |-> NoResult]
  /\ button = NoButton

\* parseSuggestions(rawResponse)
ParseText(p, rawResponse) ==
  /\ jsonMatch' = [jsonMatch EXCEPT ![p] = JsonMatch(Cleaned(rawResponse))]
  /\ suggestions' = [suggestions EXCEPT ![p] = parseSuggestions(rawResponse)]
  /\ UNCHANGED <<now, profile_suggestions, nextId, calls, pc, caller, body,
                 validated, aiResponse, thrown, response>>
  /\ UNCHANGED <<query, current, result, button>>

\* const suggestions = parseSuggestions(aiResponse || '')
ParseResponse(p) ==
  /\ log[p] = <<"openai">>
  /\ ParseText(p, aiResponse[p])
  /\ log' = [log EXCEPT ![p] = @ \o ParseLog(aiResponse[p])]

\* parseSuggestions given the text it matched
ParseAgain(p) ==
  /\ Count(log[p], "parse") = 1
  /\ ParseText(p, jsonMatch[p])
  /\ log' = [log EXCEPT ![p] = @ \o ParseLog(jsonMatch[p])]

\* parseSuggestions given the JSON text of the suggestions it returned
ParseStringified(p) ==
  /\ Count(log[p], "parse") = 1
  /\ ParseText(p, Stringify(suggestions[p]))
  /\ log' = [log EXCEPT ![p] =
       @ \o <<"stringify">> \o ParseLog(Stringify(suggestions[p]))]

ParseNext ==
  \E p \in Procs : ParseResponse(p) \/ ParseAgain(p) \/ ParseStringified(p)

ParseSpec == ParseInit /\ [][ParseNext]_vars

(***************************************************************************)
(* queries.profileSuggestions: what a browser client does to stored rows   *)
(***************************************************************************)
MaxQueries == 2

Returned(data) == [status |-> "returned", data |-> data]

Threw(error) == [status |-> "thrown", error |-> error]

\* the filter on id alone, with no policy on the table
SelectedById(id, uid) == {row \in profile_suggestions : row.id = id}

\* .eq('id', id).eq('user_id', user.id); the policies add auth.uid() = user_id,
\* which is the same condition for the signed-in user
Selected(id, uid) ==
  {row \in profile_suggestions : row.id = id /\ row.user_id = uid}

\* a rating column without its check
RatingUnchecked(row) == TRUE

\* rating integer check (rating >= 1 and rating <= 5); null passes a check
RatingCheck(row) == row.rating = Null \/ (row.rating >= 1 /\ row.rating <= 5)

\* the row with the columns named in updates replaced
Patched(row, updates) ==
  [c \in DOMAIN row |-> IF c \in DOMAIN updates THEN updates[c] ELSE row[c]]

\* .update(updates).eq('id', id).eq('user_id', user.id).select().single(),
\* then if (error) throw error; single() fails where no row comes back
UpdateStatement(p, id, uid, updates) ==
  IF Selected(id, uid) = {}
  THEN /\ result' = [result EXCEPT ![p] = Threw("PGRST116")]
       /\ UNCHANGED profile_suggestions
  ELSE LET row == CHOOSE r \in Selected(id, uid) : TRUE
           new == Patched(row, updates)
       IN IF RatingCheck(new)
          THEN /\ profile_suggestions' = (profile_suggestions \ {row}) \cup {new}
               /\ result' = [result EXCEPT ![p] = Returned(new)]
          ELSE /\ result' = [result EXCEPT ![p] = Threw("23514")]
               /\ UNCHANGED profile_suggestions

\* the table has policies for select, insert and update and none for delete,
\* and row level security is enabled: a delete is allowed on no row
DeletePolicy(row, uid) == FALSE

Clients == Owners \cup {NoUser}

RowIds == {1, 2}

Ratings == {0, 1, 5, 6}

SuggestionIds == {"s1", "s2"}

Notes == {"n1", "n2"}

Updates ==
  { [rating |-> 3], [rating |-> 6], [suggestions |-> FallbackSuggestions],
    [completed_suggestions |-> <<>>] }

\* a client starts a call: no call of its own is in flight
Calling(p, call) ==
  /\ query[p] = NoQuery
  /\ calls < MaxQueries
  /\ calls' = calls + 1
  /\ query' = [query EXCEPT ![p] = call]

pipelineVars == <<nextId, pc, caller, body, validated, aiResponse, jsonMatch,
                  suggestions, thrown, response, log, button>>

update(p, who, id, updates) ==
  /\ Calling(p, [fn |-> "update", user |-> who, id |-> id,
                 updates |-> updates, at |-> "done"])
  /\ IF who = NoUser
     THEN /\ result' = [result EXCEPT ![p] = Threw("Not authenticated")]
          /\ UNCHANGED profile_suggestions
     ELSE UpdateStatement(p, id, who, updates)
  /\ UNCHANGED <<now, current>>
  /\ UNCHANGED pipelineVars

delete(p, who, id) ==
  /\ Calling(p, [fn |-> "delete", user |-> who, id |-> id, at |-> "done"])
  /\ IF who = NoUser
     THEN /\ result' = [result EXCEPT ![p] = Threw("Not authenticated")]
          /\ UNCHANGED profile_suggestions
     ELSE /\ profile_suggestions' = profile_suggestions \
               {row \in Selected(id, who) : DeletePolicy(row, who)}
          /\ result' = [result EXCEPT ![p] = Returned(Null)]
  /\ UNCHANGED <<now, current>>
  /\ UNCHANGED pipelineVars

rate(p, who, id, rating) ==
  /\ Calling(p, [fn |-> "rate", user |-> who, id |-> id, rating |-> rating,
                 at |-> "done"])
  /\ IF rating < 1 \/ rating > 5
     THEN /\ result' = [result EXCEPT
                          ![p] = Threw("Rating must be between 1 and 5")]
          /\ UNCHANGED profile_suggestions
     ELSE IF who = NoUser
     THEN /\ result' = [result EXCEPT ![p] = Threw("Not authenticated")]
          /\ UNCHANGED profile_suggestions
     ELSE UpdateStatement(p, id, who, [rating |-> rating])
  /\ UNCHANGED <<now, current>>
  /\ UNCHANGED pipelineVars

markViewed(p, who, id) ==
  /\ Calling(p, [fn |-> "markViewed", user |-> who, id |-> id, at |-> "done"])
  /\ IF who = NoUser
     THEN /\ result' = [result EXCEPT ![p] = Threw("Not authenticated")]
          /\ UNCHANGED profile_suggestions
     ELSE UpdateStatement(p, id, who, [viewed_at |-> now])
  /\ UNCHANGED <<now, current>>
  /\ UNCHANGED pipelineVars

\* markComplete without its check for an entry already there
NeverCompleted(row, suggestionId) == FALSE

\* completedSuggestions.some(c => c.suggestionId === suggestionId)
AlreadyCompleted(row, suggestionId) ==
  \E i \in DOMAIN row.completed_suggestions :
     row.completed_suggestions[i].suggestionId = suggestionId

\* markComplete up to its update: getCurrentUser, getById, the check for an
\* entry with this suggestionId and the push onto the list that was read
markCompleteRead(p, who, id, suggestionId, notes) ==
  LET call(at) == [fn |-> "markComplete", user |-> who, id |-> id,
                   suggestionId |-> suggestionId, notes |-> notes, at |-> at]
      entry == [suggestionId |-> suggestionId, completedAt |-> now,
                notes |-> notes]
  IN /\ IF who = NoUser
        THEN /\ Calling(p, call("done"))
             /\ result' = [result EXCEPT ![p] = Threw("Not authenticated")]
             /\ UNCHANGED current
        ELSE IF Selected(id, who) = {}
        THEN /\ Calling(p, call("done"))
             /\ result' = [result EXCEPT ![p] = Threw("Suggestion not found")]
             /\ UNCHANGED current
        ELSE LET row == CHOOSE r \in Selected(id, who) : TRUE
             IN IF AlreadyCompleted(row, suggestionId)
                THEN /\ Calling(p, call("done"))
                     /\ current' = [current EXCEPT ![p] = row]
                     /\ result' = [result EXCEPT ![p] = Returned(row)]
                ELSE /\ Calling(p, call("update"))
                     /\ current' = [current EXCEPT ![p] =
                          [row EXCEPT !.completed_suggestions =
                                        Append(@, entry)]]
                     /\ UNCHANGED result
     /\ UNCHANGED <<now, profile_suggestions>>
     /\ UNCHANGED pipelineVars

\* the update of markComplete, with the list built from the row read before
markCompleteUpdate(p) ==
  /\ query[p] # NoQuery
  /\ query[p].at = "update"
  /\ query' = [query EXCEPT ![p].at = "done"]
  /\ UpdateStatement(p, query[p].id, query[p].user,
       [completed_suggestions |-> current[p].completed_suggestions])
  /\ UNCHANGED <<now, calls, current>>
  /\ UNCHANGED pipelineVars

\* the promise settles and the client is free for its next call
Settle(p) ==
  /\ query[p] # NoQuery
  /\ query[p].at = "done"
  /\ query' = [query EXCEPT ![p] = NoQuery]
  /\ current' = [current EXCEPT ![p] = NoRow]
  /\ result' = [result EXCEPT ![p] = NoResult]
  /\ UNCHANGED <<now, profile_suggestions, calls>>
  /\ UNCHANGED pipelineVars

Update(p) ==
  \E who \in Clients, id \in RowIds, updates \in Updates :
     update(p, who, id, updates)

Delete(p) == \E who \in Clients, id \in RowIds : delete(p, who, id)

Rate(p) ==
  \E who \in Clients, id \in RowIds, rating \in Ratings :
     rate(p, who, id, rating)

MarkViewed(p) == \E who \in Clients, id \in RowIds : markViewed(p, who, id)

MarkComplete(p) ==
  \E who \in Clients, id \in RowIds, suggestionId \in SuggestionIds,
     notes \in Notes : markCompleteRead(p, who, id, suggestionId, notes)

\* the table after each owner's request was stored by POST
StoredRows ==
  { NewRow(1, "alice", parseSuggestions(TwoItems),
           Parsed([userBackground |-> Rep("a", 10),
                   experienceLevel |-> "beginner"]), 0),
    NewRow(2, "bob", parseSuggestions(<<"{", "S">> \o ItemList(1) \o <<"]", "}">>),
           Parsed([userBackground |-> Rep("b", 10) \o <<" ">>,
                   currentGoals |-> <<"g">>,
                   experienceLevel |-> "advanced"]), 0) }

QueryInit ==
  /\ now = 0
  /\ profile_suggestions = StoredRows
  /\ nextId = 3
  /\ calls = 0
  /\ pc = [p \in Procs |-> "idle"]
  /\ caller = [p \in Procs |-> NoUser]
  /\ body = [p \in Procs |-> NoBody]
  /\ validated = [p \in Procs |-> NoBody]
  /\ aiResponse = [p \in Procs |-> <<>>]
  /\ jsonMatch = [p \in Procs |-> <<>>]
  /\ suggestions = [p \in Procs |-> <<>>]
  /\ thrown = [p \in Procs |-> NotThrown]
  /\ response = [p \in Procs |-> NoResponse]
  /\ log = [p \in Procs |-> <<>>]
  /\ query = [p \in Procs |-> NoQuery]
  /\ current = [p \in Procs |-> NoRow]
  /\ result = [p \in Procs |-> NoResult]
  /\ button = NoButton

Query(p) ==
  \/ Update(p)
  \/ Delete(p)
  \/ Rate(p)
  \/ MarkViewed(p)
  \/ MarkComplete(p)
  \/ markCompleteUpdate(p)
  \/ Settle(p)

\* two browser sessions whose calls interleave
QueryNext == (\E p \in Procs : Query(p)) \/ Tick

QuerySpec == QueryInit /\ [][QueryNext]_vars

\* one browser session, each call awaited before the next
SeqQueryNext == Query("p1") \/ Tick

SeqQuerySpec == QueryInit /\ [][SeqQueryNext]_vars

(***************************************************************************)
(* Button: a rendered button element, its props and the clicks it gets     *)
(***************************************************************************)
MaxClicks == 8

\* the disabled attribute when only the disabled prop counts
DisabledPropOnly(props) == props.disabled

\* disabled={disabled || isLoading}; a prop left out counts as false, and
\* disabled was taken out of props, so {...props} cannot set it again
DisabledAttribute(props) == props.disabled \/ props.isLoading

\* render(<Button onClick={handleClick} disabled={d} isLoading={l}>)
ButtonInit ==
  /\ now = 0
  /\ profile_suggestions = {}
  /\ nextId = 1
  /\ calls = 0
  /\ pc = [p \in Procs |-> "idle"]
  /\ caller = [p \in Procs |-> NoUser]
  /\ body = [p \in Procs |-> NoBody]
  /\ validated = [p \in Procs |-> NoBody]
  /\ aiResponse = [p \in Procs |-> <<>>]
  /\ jsonMatch = [p \in Procs |-> <<>>]
  /\ suggestions = [p \in Procs |-> <<>>]
  /\ thrown = [p \in Procs |-> NotThrown]
  /\ response = [p \in Procs |-> NoResponse]
  /\ log = [p \in Procs |-> <<>>]
  /\ query = [p \in Procs |-> NoQuery]
  /\ current = [p \in Procs |-> NoRow]
  /\ result = [p \in Procs |-> NoResult]
  /\ \E d \in BOOLEAN, l \in BOOLEAN :
        button = [NoButton EXCEPT !.disabled = d, !.isLoading = l]

notButton == <<now, profile_suggestions, nextId, calls, pc, caller, body,
               validated, aiResponse, jsonMatch, suggestions, thrown, response,
               log, query, current, result>>

\* the parent renders the Button again with other props and the same handler
Rerender ==
  /\ \E d \in BOOLEAN, l \in BOOLEAN :
        /\ <<d, l>> # <<button.disabled, button.isLoading>>
        /\ button' = [button EXCEPT !.disabled = d, !.isLoading = l]
  /\ UNCHANGED notButton

\* fireEvent.click(button): a disabled button element dispatches no click to
\* its handler, any other calls props.onClick once
Click ==
  /\ button.clicks < MaxClicks
  /\ button' = [button EXCEPT
                  !.clicks = @ + 1,
                  !.onClick = IF DisabledAttribute(button) THEN @ ELSE @ + 1]
  /\ UNCHANGED notButton

ButtonNext == Rerender \/ Click

ButtonSpec == ButtonInit /\ [][ButtonNext]_vars

(***************************************************************************)
(* Properties                                                              *)
(***************************************************************************)
Inserts(p) == Count(log[p], "insert")

Finished(p) == pc[p] = "done"

Succeeded(p) == Finished(p) /\ response[p].status = 200

Cached(p) == Succeeded(p) /\ "cached" \in DOMAIN response[p]

QuotaExceeded(p) == Finished(p) /\ response[p].status = 429

InputInvalid(p) == Finished(p) /\ thrown[p] = "ValidationError"

\* the row the request stored
StoredRow(p) ==
  {row \in profile_suggestions :
     /\ row.user_id = caller[p]
     /\ row.suggestions = suggestions[p]
     /\ row.input_data = validated[p]}

Abs(x) == IF x < 0 THEN -x ELSE x

\* C2: no two records of one owner are created within 24 hours of each
\* other, however the requests interleave.
C2_NoTwoInWindow ==
  \A r1 \in profile_suggestions, r2 \in profile_suggestions :
    (r1.id # r2.id /\ r1.user_id = r2.user_id)
      => Abs(r1.created_at - r2.created_at) >= Window

\* C3: with one request at a time, every record of an owner is created at
\* least 24 hours after that owner's previous record.
C3_SequentialWindow ==
  \A later \in profile_suggestions :
    \A earlier \in {row \in profile_suggestions :
                      row.user_id = later.user_id /\ row.id < later.id} :
      later.created_at - earlier.created_at >= Window

C3_Witness ==
  \E later \in profile_suggestions, earlier \in profile_suggestions :
    /\ earlier.id < later.id
    /\ earlier.user_id = later.user_id

LatestCreatedAt(uid) ==
  Max({row.created_at : row \in {r \in profile_suggestions : r.user_id = uid}})

HasRecord(uid) == \E row \in profile_suggestions : row.user_id = uid

\* C4: the rate check denies exactly when the caller's latest record is
\* younger than 24 hours, and a denial carries retryAfter = 24 hours minus
\* the age of that record, which is positive.
C4_DenyWithRetryAfter ==
  [][\A p \in Procs :
       RateLimit(p) =>
         LET denied == response'[p].status = 429
             age == now - LatestCreatedAt(caller[p])
         IN /\ denied <=> (HasRecord(caller[p]) /\ age < Window)
            /\ denied =>
                 /\ "retryAfter" \in DOMAIN response'[p]
                 /\ response'[p].retryAfter = Window - age
                 /\ response'[p].retryAfter > 0]_vars

\* C5: a request whose insert failed does not answer with a success.
C5_InsertFailureFails ==
  \A p \in Procs :
    (Finished(p) /\ Count(log[p], "dbError") > 0) => response[p].status # 200

Degraded(r) == "degraded" \in DOMAIN r /\ r.degraded = TRUE

\* C6: a request whose completion call threw answers 200 with the fallback
\* suggestions, flagged degraded, and has stored them.
C6_GatewayFailureFallsBack ==
  \A p \in Procs :
    (Finished(p) /\ thrown[p] \in {"MissingApiKey", "OpenAIError"}) =>
      /\ response[p].status = 200
      /\ response[p].suggestions = FallbackSuggestions
      /\ Degraded(response[p])
      /\ Inserts(p) = 1

\* the answers that hold no usable suggestion list: no brace pair, malformed
\* JSON, an empty list, more than ten elements, an invalid element, nothing
HasBracePair(text) ==
  \E i \in 1..Len(text), j \in 1..Len(text) : i < j /\ text[i] = "{" /\ text[j] = "}"

Unusable(text) ==
  \/ ~HasBracePair(text)
  \/ text \in {EmptyList, Unclosed, InvalidElement, TooMany}

\* C7: when the completion text holds no brace pair or no valid suggestion
\* list, the suggestions of the request are the one fallback suggestion, the
\* answer is a 200 carrying it, and a row the request stored holds it.
C7_UnusableTextFallsBack ==
  \A p \in Procs :
    (Count(log[p], "parse") = 1 /\ Unusable(aiResponse[p])) =>
      /\ suggestions[p] = FallbackSuggestions
      /\ Finished(p) =>
           /\ response[p].status = 200
           /\ response[p].success
           /\ response[p].suggestions = FallbackSuggestions
           /\ Inserts(p) = 1 =>
                \E row \in StoredRow(p) : row.suggestions = FallbackSuggestions

C7_Witness ==
  \E p \in Procs :
    /\ Finished(p)
    /\ aiResponse[p] = InvalidElement
    /\ Inserts(p) = 1
    /\ response[p].suggestions = FallbackSuggestions

\* C8: a successful, freshly generated answer is flagged degraded exactly
\* when its suggestions came from the fallback.
C8_DegradedIffFallback ==
  \A p \in Procs :
    (Succeeded(p) /\ ~Cached(p)) =>
      (Degraded(response[p]) <=> Unusable(aiResponse[p]))

\* C9: a request with a valid body from a signed-in caller ends in a 200
\* with one to ten suggestions or in a quota denial.
C9_TypedOutcome ==
  \A p \in Procs :
    (Finished(p) /\ aiPromptSchema(body[p]) /\ caller[p] \in Owners) =>
      \/ /\ response[p].status = 200
         /\ Len(response[p].suggestions) \in 1..10
      \/ response[p].status = 429

Validating(p) == log[p] = <<"validate">>

Accepted(p) == Validating(p) /\ pc[p] = "auth" /\ thrown[p] = NotThrown

Rejected(p) == Validating(p) /\ pc[p] = "done" /\ thrown[p] = "ValidationError"

\* C11: a body is accepted exactly when its background has 10 to 2000
\* characters, its goals, when present, at most 1000, and its experience
\* level is beginner, intermediate or advanced; a body that is not accepted
\* is rejected with the validation error.  A background of 9 or of 2001
\* characters is rejected; one of 10 or of 2000 is accepted with the other
\* fields in range.
C11_BackgroundBounds ==
  \A p \in Procs :
    Validating(p) =>
      LET n == Len(body[p].userBackground)
          rest == /\ ("currentGoals" \in DOMAIN body[p]
                        => Len(body[p].currentGoals) <= 1000)
                  /\ body[p].experienceLevel \in {"beginner", "intermediate", "advanced"}
      IN /\ Accepted(p) <=> (n >= 10 /\ n <= 2000 /\ rest)
         /\ Rejected(p) <=> ~Accepted(p)
         /\ n \in {9, 2001} => Rejected(p)
         /\ (n \in {10, 2000} /\ rest) => Accepted(p)

C11_Witness ==
  \E p \in Procs :
    /\ Accepted(p)
    /\ Len(body[p].userBackground) = 2000
    /\ "currentGoals" \in DOMAIN body[p]
    /\ Len(body[p].currentGoals) = 1000

\* every y of s has an x somewhere before it
Precedes(s, x, y) ==
  \A j \in 1..Len(s) : s[j] = y => \E i \in 1..(j - 1) : s[i] = x

AgreeingRows(data) ==
  {row \in profile_suggestions :
     /\ row.input_data.experienceLevel = data.experienceLevel
     /\ Take(row.input_data.userBackground, 30) = Take(data.userBackground, 30)}

PlainLeadingWords(text) ==
  \A i \in 1..Len(text) :
    i <= 30 => /\ text[i] # "n"
               /\ (text[i] = " " /\ i < Len(text)) => text[i + 1] \notin {" ", "n"}

C14_HitReusesRecord ==
  [][\A p \in Procs :
       (CacheLookup(p) /\ "cached" \in DOMAIN response'[p])
         => /\ \E row \in profile_suggestions :
                 /\ row.input_data.experienceLevel = validated[p].experienceLevel
                 /\ Len(response'[p].suggestions) = Len(row.suggestions)
                 /\ \A i \in 1..Len(row.suggestions) :
                      response'[p].suggestions[i] = row.suggestions[i]
            /\ profile_suggestions' = profile_suggestions
            /\ nextId' = nextId
            /\ Count(log'[p], "insert") = 0
            /\ Count(log'[p], "dbError") = 0]_vars

\* a hit on a record of two suggestions
C14_Witness ==
  \E p \in Procs, row \in profile_suggestions :
    /\ Cached(p)
    /\ Len(row.suggestions) = 2
    /\ response[p].suggestions = row.suggestions
    /\ row.suggestions[1] # row.suggestions[2]

\* C15: a cache lookup hits exactly when some stored record has the level of
\* the request and a background whose normalized prefix (lowercased,
\* whitespace collapsed, first 30 characters) equals that of the request's
\* background.
C15_HitIffPrefixEqual ==
  [][\A p \in Procs :
       CacheLookup(p) =>
         (("cached" \in DOMAIN response'[p]) <=>
            \E row \in profile_suggestions :
              /\ row.input_data.experienceLevel = validated[p].experienceLevel
              /\ firstFewWords(row.input_data.userBackground)
                   = firstFewWords(validated[p].userBackground))]_vars

\* C16: a request calls the completion service at most once.  While it
\* stands before the call it has not called yet, so nothing leads back to
\* the call; once the answer is parsed, whether it was usable or replaced
\* by the fallback, the request goes on to the insert and the response; a
\* call that threw ends the request.
C16_AtMostOneGatewayCall ==
  \A p \in Procs :
    /\ Count(log[p], "openai") <= 1
    /\ pc[p] = "openai" => Count(log[p], "openai") = 0
    /\ Count(log[p], "parse") = 1 =>
         /\ pc[p] \in {"store", "done"}
         /\ Count(log[p], "openai") = 1
         /\ Unusable(aiResponse[p]) => suggestions[p] = FallbackSuggestions
    /\ thrown[p] \in {"MissingApiKey", "OpenAIError"} =>
         (Finished(p) /\ Count(log[p], "openai") = 1)

C16_Witness ==
  /\ \E p \in Procs :
       /\ Finished(p)
       /\ thrown[p] = "OpenAIError"
       /\ Count(log[p], "openai") = 1
  /\ calls = MaxCalls

\* parseSuggestions has run once on the completion text
ParsedOnce(p) == Count(log[p], "parse") = 1

\* its try block ran to the return / its catch block ran
ParseAccepted(p) == ParsedOnce(p) /\ Count(log[p], "parseError") = 0

ParseRejected(p) == ParsedOnce(p) /\ Count(log[p], "parseError") = 1

\* C17: the matched text is accepted exactly when it is the JSON text of an
\* object whose suggestions member is a list of 1 to 10 elements, each with
\* non-empty title, reason and action; then all its elements are returned
\* in order.  Any other text (not JSON, no list, an empty list, more than
\* ten elements, one element with an empty field) is rejected as a whole:
\* what is returned is the fallback suggestion and no element of the list.
C17_ValidatorAcceptsExactly ==
  \A p \in Procs :
    ParsedOnce(p) =>
      LET valid == {fs \in CandidateLists :
                      /\ jsonMatch[p] = Render(fs)
                      /\ Len(fs) >= 1
                      /\ Len(fs) <= 10
                      /\ \A i \in 1..Len(fs) :
                           /\ Fields(fs[i]).title # ""
                           /\ Fields(fs[i]).reason # ""
                           /\ Fields(fs[i]).action # ""}
      IN /\ ParseAccepted(p) <=> valid # {}
         /\ ParseRejected(p) <=> valid = {}
         /\ \A fs \in valid :
              suggestions[p] = [i \in 1..Len(fs) |-> Fields(fs[i])]
         /\ valid = {} =>
              /\ suggestions[p] = FallbackSuggestions
              /\ \A i \in 1..Len(suggestions[p]) :
                   suggestions[p][i] \notin {Fields("t"), Fields("u"), Fields("w")}

\* ten elements, the last with an empty title: rejected whole
C17_Witness ==
  \E p \in Procs :
    /\ ParseRejected(p)
    /\ jsonMatch[p] = Render([Rep("t", 10) EXCEPT ![10] = "e"])
    /\ suggestions[p] = FallbackSuggestions

\* C18: the match is null exactly when the completion text has no "{" with
\* a "}" somewhere after it, and then the fallback is returned.  Otherwise
\* the match starts at the first "{" and ends at the last "}", holds no
\* fence marker, and is that stretch of the text itself wherever no fence
\* marker lies inside the stretch; so a fence around the JSON is dropped
\* whatever follows the opening marker (json, another word, nothing).
C18_NormalizeExtractsBraces ==
  \A p \in Procs :
    ParsedOnce(p) =>
      LET raw == aiResponse[p]
          found == \E i \in 1..Len(raw), j \in 1..Len(raw) :
                     i < j /\ raw[i] = "{" /\ raw[j] = "}"
          first == Min({i \in 1..Len(raw) : raw[i] = "{"})
          last == Max({j \in 1..Len(raw) : raw[j] = "}"})
          span == SubSeq(raw, first, last)
          match == jsonMatch[p]
      IN /\ (match = <<>>) <=> ~found
         /\ ~found => (ParseRejected(p) /\ suggestions[p] = FallbackSuggestions)
         /\ found =>
              /\ match[1] = "{"
              /\ match[Len(match)] = "}"
              /\ \A i \in 1..Len(match) : match[i] # "F"
              /\ (\A i \in 1..Len(span) : span[i] # "F") => match = span

\* a fence tagged with another word than json
C18_Witness ==
  \E p \in Procs :
    /\ ParseAccepted(p)
    /\ aiResponse[p] = <<"F", "x", "n">> \o TwoItems \o <<"n", "F">>
    /\ jsonMatch[p] = TwoItems

\* bare JSON: the text begins with "{" and ends with "}"
Bare(text) == text # <<>> /\ text[1] = "{" /\ text[Len(text)] = "}"

\* C19: where the completion text is bare JSON, matching the matched text
\* again gives the same match, and the same suggestions are returned.
C19_NormalizeIdempotent ==
  [][\A p \in Procs :
       (ParseAgain(p) /\ Bare(aiResponse[p]))
         => /\ jsonMatch[p] # <<>>
            /\ jsonMatch'[p] = jsonMatch[p]
            /\ suggestions'[p] = suggestions[p]]_vars

\* bare JSON with a fence marker inside, matched twice
C19_Witness ==
  \E p \in Procs :
    /\ log[p] \in {<<"openai", "parse", "parse">>,
                    <<"openai", "parse", "parseError", "parse", "parseError">>}
    /\ Bare(aiResponse[p])
    /\ \E i \in 1..Len(aiResponse[p]) : aiResponse[p][i] = "F"
    /\ jsonMatch[p] = <<"{", "}">>

\* C20: whatever the text and whatever made the try block fail, the catch
\* block returns the same one suggestion, "Start with Fundamentals"; and
\* that list written out as { suggestions: [...] } is accepted by
\* JSON.parse and aiResponseSchema and comes back as it was.
C20_FallbackRoundTrip ==
  [][\A p \in Procs :
       /\ Count(log'[p], "parseError") > Count(log[p], "parseError") =>
            /\ suggestions'[p] = FallbackSuggestions
            /\ Len(suggestions'[p]) = 1
            /\ suggestions'[p][1].title = "Start with Fundamentals"
       /\ (ParseStringified(p) /\ ParseRejected(p)) =>
            /\ jsonMatch'[p] = <<"{", "S", "{", "f", "}", "]", "}">>
            /\ Count(log'[p], "parseError") = Count(log[p], "parseError")
            /\ suggestions'[p] = suggestions[p]]_vars

\* a text with no braces fell back, and the fallback was written out and parsed
C20_Witness ==
  \E p \in Procs :
    /\ log[p] = <<"openai", "parse", "parseError", "stringify", "parse">>
    /\ aiResponse[p] = NoBraces
    /\ suggestions[p] = FallbackSuggestions

\* the row that carries on row's id after the step, if one does
Successors(row) == {new \in profile_suggestions' : new.id = row.id}

\* C21: once a record is created, update, rate, markComplete and markViewed
\* leave its id, user_id, suggestions, input_data and created_at as they were
C21_CreationFieldsFrozen ==
  [][\A row \in profile_suggestions : \A new \in Successors(row) :
        /\ new.user_id = row.user_id
        /\ new.suggestions = row.suggestions
        /\ new.input_data = row.input_data
        /\ new.created_at = row.created_at]_vars

\* the call of p reaches its outcome in this step
Completes(p) ==
  /\ query'[p] # NoQuery
  /\ query'[p].at = "done"
  /\ query[p] = NoQuery \/ query[p].at = "update"

\* the caller of p's call owns no row with the id the call names
NotOwner(p) ==
  \A row \in profile_suggestions :
     row.id = query'[p].id => row.user_id # query'[p].user

\* every row that changes or goes is changed by a call its owner made
OnlyOwnerWrites ==
  \A row \in profile_suggestions :
     row \notin profile_suggestions' =>
        \E p \in Procs : Completes(p) /\ query'[p].user = row.user_id

C23_HitOnOwnRecord ==
  \A p \in Procs :
    Cached(p) =>
      \E row \in profile_suggestions :
        /\ row.user_id = caller[p]
        /\ row.suggestions = response[p].suggestions

\* a text field that is empty once trimmed
IsBlank(field) == field = "" \/ field = " "

\* C24: every suggestion that parseSuggestions hands on has a title, a reason
\* and an action that are not empty after trimming; an answer with a field
\* of blanks only is not accepted.
C24_FieldsNonBlank ==
  \A p \in Procs :
    \A i \in DOMAIN suggestions[p] :
      /\ ~IsBlank(suggestions[p][i].title)
      /\ ~IsBlank(suggestions[p][i].reason)
      /\ ~IsBlank(suggestions[p][i].action)

\* C25: a click on a Button rendered with disabled or isLoading true does
\* not call onClick, however many clicks came before; a click on a Button
\* with neither calls onClick exactly once.
C25_ClickCallsHandlerUnlessDisabled ==
  [][button'.clicks = button.clicks + 1 =>
       IF button.disabled \/ button.isLoading
       THEN button'.onClick = button.onClick
       ELSE button'.onClick = button.onClick + 1]_vars

\* a loading Button, not disabled by its prop, clicked three times in vain
C25_Witness ==
  /\ button.isLoading
  /\ ~button.disabled
  /\ button.clicks = 3
  /\ button.onClick = 0

\* C26: the background of every input that passed validation has 10 to 2000
\* characters as it is handed on, that is, after trimming; a background of
\* ten or more characters that is mostly blanks does not get through with
\* fewer than 10.
C26_TrimmedBackgroundBounds ==
  \A p \in Procs :
    Accepted(p) =>
      /\ Len(validated[p].userBackground) >= MinBackground
      /\ Len(validated[p].userBackground) <= MaxBackground

\* C27: the rating of every stored record is absent or an integer from 1 to
\* 5, whether rate or the general update wrote it; rate called with a rating
\* below 1 or above 5 fails and changes no record.
C27_RatingInRange ==
  /\ [](\A row \in profile_suggestions :
          row.rating = Null \/ row.rating \in 1..5)
  /\ [][\A p \in Procs :
          (/\ Completes(p)
           /\ query'[p].fn = "rate"
           /\ query'[p].rating \notin 1..5) =>
             /\ result'[p] = Threw("Rating must be between 1 and 5")
             /\ profile_suggestions' = profile_suggestions]_vars

\* a record rated 5 by rate, and an update to rating 6 that the table refused
C27_Witness ==
  \E p \in Procs, row \in profile_suggestions :
     /\ row.rating = 5
     /\ query[p] # NoQuery
     /\ query[p].fn = "update"
     /\ query[p].id = row.id
     /\ query[p].updates = [rating |-> 6]
     /\ result[p] = Threw("23514")

\* C28: with calls made one after the other, the completed list of a record
\* never holds two entries for one suggestionId, and a markComplete for a
\* suggestionId that is already in the list returns the record as it is,
\* with the completedAt and notes of the first call, and writes nothing.
C28_MarkCompleteIdempotent ==
  /\ [](\A row \in profile_suggestions :
          \A i, j \in DOMAIN row.completed_suggestions :
             row.completed_suggestions[i].suggestionId
               = row.completed_suggestions[j].suggestionId => i = j)
  /\ [][\A p \in Procs :
          (/\ query[p] = NoQuery
           /\ query'[p] # NoQuery
           /\ query'[p].fn = "markComplete") =>
             \A row \in Selected(query'[p].id, query'[p].user) :
                AlreadyCompleted(row, query'[p].suggestionId) =>
                   /\ query'[p].at = "done"
                   /\ result'[p] = Returned(row)
                   /\ profile_suggestions' = profile_suggestions]_vars

\* a second markComplete for the same suggestionId, later and with other
\* notes, returned the record with the entry of the first call
C28_Witness ==
  \E p \in Procs, row \in profile_suggestions :
     /\ query[p] # NoQuery
     /\ query[p].fn = "markComplete"
     /\ query[p].at = "done"
     /\ result[p] = Returned(row)
     /\ Len(row.completed_suggestions) = 1
     /\ row.completed_suggestions[1].suggestionId = query[p].suggestionId
     /\ row.completed_suggestions[1].notes # query[p].notes
     /\ row.completed_suggestions[1].completedAt < now

\* C29: with two markComplete calls on one record in flight together, each
\* reading the list and then writing the extended list, no completion is
\* lost: the write of either call leaves in the list an entry for every
\* suggestionId that had one just before it, so the final list has the
\* entries of both calls when their suggestionIds differ.
C29_NoCompletionLost ==
  [][\A p \in Procs :
       (/\ query[p] # NoQuery
        /\ query[p].at = "update"
        /\ query'[p].at = "done"
        /\ result'[p].status = "returned") =>
          \A row \in Selected(query[p].id, query[p].user) :
             \A i \in DOMAIN row.completed_suggestions :
                \E j \in DOMAIN result'[p].data.completed_suggestions :
                   result'[p].data.completed_suggestions[j].suggestionId
                     = row.completed_suggestions[i].suggestionId]_vars

\* C30: every request that was received eventually ends, with a result or
\* with an error: the call to the completion service is bounded by a
\* timeout, so a service that never answers does not hold the request
\* forever, and a parse that started runs to its end.
C30_EveryRequestFinishes ==
  \A p \in Procs : (pc[p] # "idle") ~> Finished(p)

====
